---- MODULE Spec2Model ----
(***************************************************************************)
(* Birthday Card Manager (Card_sender.py): the contact parser, the         *)
(* birthday window filter and the Streamlit script run that ties them to   *)
(* the session state and to the e-mail notification loop.                  *)
(*                                                                         *)
(* Text is a sequence of Unicode code points.  A datetime is a record      *)
(* [year, month, day, tod], tod counting the ticks since midnight          *)
(* (tod = 0 is midnight exactly); a DataFrame is the sequence of its rows. *)
(***************************************************************************)
EXTENDS Integers, Sequences, FiniteSets, TLC

VARIABLES
    uploaded_file,      \* value of the st.file_uploader widget (NoFile or a file)
    contacts,           \* st.session_state.contacts
    selected_card,      \* st.session_state.selected_card
    card_message,       \* st.session_state.card_message
    days_ahead,         \* value of the "days ahead" slider / days_ahead argument
    email_enabled,      \* "Enable Email Notifications" checkbox
    notification_email, \* TRUE iff the "Your Email Address" input is non-empty
    message,            \* message chosen in the "Create Cards" tab
    now,                \* the wall clock, as datetime.now() returns it
    upcoming,           \* result of the last check_upcoming_birthdays call
    checked_at,         \* the clock value that call read (NoDate: never called)
    attempts,           \* the send attempts of the last script run, in order
    reports,            \* the st.success / st.error lines of the last script run
    run,                \* where the last script run stands in the notification
                        \* loop: "idle" (it has none), "sending", "sent", "stopped"
    last_op             \* the operation that produced the current state

vars == <<uploaded_file, contacts, selected_card, card_message, days_ahead,
          email_enabled, notification_email, message, now, upcoming,
          checked_at, attempts, reports, run, last_op>>

----------------------------------------------------------------------------
(* Bounds *)

TicksPerDay == 2
MaxContacts == 2
MaxLines == 2

----------------------------------------------------------------------------
(* Text primitives (Python str): a character is its Unicode code point *)

NewLine == 10
Space == 32
Comma == 44
Dash == 45
Dot == 46
Slash == 47
Zero == 48

\* the digit zero of every run of ten decimal digits (category Nd) of Unicode
DigitZeros ==
    {48, 1632, 1776, 1984, 2406, 2534, 2662, 2790, 2918, 3046, 3174,
     3302, 3430, 3558, 3664, 3792, 3872, 4160, 4240, 6112, 6160, 6470,
     6608, 6784, 6800, 6992, 7088, 7232, 7248, 42528, 43216, 43264,
     43472, 43504, 43600, 44016, 65296, 66720, 68912, 69734, 69872,
     69942, 70096, 70384, 70736, 70864, 71248, 71360, 71472, 71904,
     72016, 72784, 73040, 73120, 92768, 92864, 93008, 120782, 120792,
     120802, 120812, 120822, 123200, 123632, 125264, 130032}

\* \d of a str pattern, and what int() converts
IsDigit(c) == \E z \in DigitZeros : c \in z..(z + 9)

DigitVal(c) == c - (CHOOSE z \in DigitZeros : c \in z..(z + 9))

\* the characters str.strip() removes (str.isspace)
Whitespace ==
    {9, 10, 11, 12, 13, 28, 29, 30, 31, 32, 133, 160, 5760}
    \cup (8192..8202) \cup {8232, 8233, 8239, 8287, 12288}

RECURSIVE LStrip(_)
LStrip(s) ==
    IF s = <<>> THEN s
    ELSE IF Head(s) \in Whitespace THEN LStrip(Tail(s)) ELSE s

RECURSIVE RStrip(_)
RStrip(s) ==
    IF s = <<>> THEN s
    ELSE IF s[Len(s)] \in Whitespace THEN RStrip(SubSeq(s, 1, Len(s) - 1)) ELSE s

Strip(s) == RStrip(LStrip(s))

\* s.split(sep): the pieces between consecutive separators
Split(s, sep) ==
    LET pos      == {i \in 1..Len(s) : s[i] = sep}
        nth(k)   == CHOOSE i \in pos : Cardinality({j \in pos : j < i}) = k - 1
        first(k) == IF k = 1 THEN 1 ELSE nth(k - 1) + 1
        last(k)  == IF k = Cardinality(pos) + 1 THEN Len(s) ELSE nth(k) - 1
    IN  [k \in 1..(Cardinality(pos) + 1) |-> SubSeq(s, first(k), last(k))]

Replace(s, old, new) == [i \in 1..Len(s) |-> IF s[i] = old THEN new ELSE s[i]]

DigitAt(n, p) == Zero + ((n \div p) % 10)

Pad2(n) == <<DigitAt(n, 10), DigitAt(n, 1)>>

Pad4(n) == <<DigitAt(n, 1000), DigitAt(n, 100), DigitAt(n, 10), DigitAt(n, 1)>>

----------------------------------------------------------------------------
(* Calendar primitives (Python datetime) *)

NoDate == [year |-> 0, month |-> 0, day |-> 0, tod |-> 0]

IsLeap(y) == y % 4 = 0 /\ (y % 100 # 0 \/ y % 400 = 0)

DaysInMonth(y, m) ==
    IF m = 2 THEN (IF IsLeap(y) THEN 29 ELSE 28)
    ELSE IF m \in {4, 6, 9, 11} THEN 30 ELSE 31

RECURSIVE DaysBeforeMonth(_, _)
DaysBeforeMonth(y, m) ==
    IF m <= 1 THEN 0 ELSE DaysBeforeMonth(y, m - 1) + DaysInMonth(y, m - 1)

DaysBeforeYear(y) ==
    (y - 1) * 365 + ((y - 1) \div 4) - ((y - 1) \div 100) + ((y - 1) \div 400)

Ordinal(d) == DaysBeforeYear(d.year) + DaysBeforeMonth(d.year, d.month) + d.day

Ticks(d) == Ordinal(d) * TicksPerDay + d.tod

\* datetime(y, m, d): midnight of a valid calendar day, ValueError (NoDate) otherwise
MakeDate(y, m, d) ==
    IF y >= 1 /\ y <= 9999 /\ m \in 1..12 /\ d >= 1 /\ d <= DaysInMonth(y, m)
    THEN [year |-> y, month |-> m, day |-> d, tod |-> 0]
    ELSE NoDate

\* birth_date.replace(year=y)
ReplaceYear(d, y) == MakeDate(y, d.month, d.day)

\* a < b on datetimes
DateTimeLess(a, b) == Ticks(a) < Ticks(b)

\* (a - b).days: timedelta keeps 0 <= seconds < 86400, so days is the floor
DeltaDays(a, b) == (Ticks(a) - Ticks(b)) \div TicksPerDay

\* %m: 1[0-2]|0[1-9]|[1-9]
MatchMonth(p) ==
    \/ Len(p) = 2 /\ p[1] = Zero + 1 /\ p[2] \in Zero..(Zero + 2)
    \/ Len(p) = 2 /\ p[1] = Zero /\ p[2] \in (Zero + 1)..(Zero + 9)
    \/ Len(p) = 1 /\ p[1] \in (Zero + 1)..(Zero + 9)

\* %d: 3[0-1]|[1-2]\d|0[1-9]|[1-9]| [1-9]
MatchDay(p) ==
    \/ Len(p) = 2 /\ p[1] = Zero + 3 /\ p[2] \in Zero..(Zero + 1)
    \/ Len(p) = 2 /\ p[1] \in (Zero + 1)..(Zero + 2) /\ IsDigit(p[2])
    \/ Len(p) = 2 /\ p[1] \in {Zero, Space} /\ p[2] \in (Zero + 1)..(Zero + 9)
    \/ Len(p) = 1 /\ p[1] \in (Zero + 1)..(Zero + 9)

\* %Y: \d\d\d\d
MatchYear(p) == Len(p) = 4 /\ \A i \in 1..4 : IsDigit(p[i])

\* int(p) of a matched group: the decimal value, a leading space ignored
RECURSIVE ToInt(_)
ToInt(p) ==
    IF p = <<>> THEN 0
    ELSE IF IsDigit(p[Len(p)])
         THEN 10 * ToInt(SubSeq(p, 1, Len(p) - 1)) + DigitVal(p[Len(p)])
         ELSE ToInt(SubSeq(p, 1, Len(p) - 1))

\* datetime.strptime(s, '%m/%d/%Y'); NoDate stands for the ValueError
strptime(s) ==
    LET parts == Split(s, Slash)
    IN  IF Len(parts) = 3 /\ MatchMonth(parts[1]) /\ MatchDay(parts[2])
           /\ MatchYear(parts[3])
        THEN MakeDate(ToInt(parts[3]), ToInt(parts[1]), ToInt(parts[2]))
        ELSE NoDate

\* d.strftime('%m/%d/%Y')
strftime(d) == Pad2(d.month) \o <<Slash>> \o Pad2(d.day) \o <<Slash>> \o Pad4(d.year)

----------------------------------------------------------------------------
(* check_upcoming_birthdays *)

\* lines 65-66
ParseBirthdate(text) == strptime(Replace(Replace(text, Dash, Slash), Dot, Slash))

\* NextOccurrence without the roll-over of lines 72-73
NextOccurrenceThisYear(text, today) ==
    ReplaceYear(ParseBirthdate(text), today.year)

\* lines 69-73: the occurrence date, NoDate when strptime or replace raise
NextOccurrence(text, today) ==
    LET birth_date == ParseBirthdate(text)
        this_year  == ReplaceYear(birth_date, today.year)
    IN  IF birth_date = NoDate THEN NoDate
        ELSE IF this_year = NoDate THEN NoDate
        ELSE IF DateTimeLess(this_year, today)
             THEN ReplaceYear(birth_date, today.year + 1)
             ELSE this_year

\* line 75
DaysUntil(text, today) == DeltaDays(NextOccurrence(text, today), today)

\* line 77, and the except of lines 85-86
Included(contact, today, horizon) ==
    /\ NextOccurrence(contact.Birthdate, today) # NoDate
    /\ 0 <= DaysUntil(contact.Birthdate, today)
    /\ DaysUntil(contact.Birthdate, today) <= horizon

\* lines 78-84
UpcomingRow(contact, today) ==
    [Name      |-> contact.Name,
     Address   |-> contact.Address,
     Birthdate |-> contact.Birthdate,
     DaysUntil |-> DaysUntil(contact.Birthdate, today),
     ThisYearBirthday |-> strftime(NextOccurrence(contact.Birthdate, today))]

\* FilterLoop with the except of lines 85-86 leaving the loop
RECURSIVE FilterLoopBreak(_, _, _, _)
FilterLoopBreak(rows, today, horizon, acc) ==
    IF rows = <<>> THEN acc
    ELSE IF NextOccurrence(Head(rows).Birthdate, today) = NoDate THEN acc
    ELSE IF Included(Head(rows), today, horizon)
         THEN FilterLoopBreak(Tail(rows), today, horizon,
                              Append(acc, UpcomingRow(Head(rows), today)))
         ELSE FilterLoopBreak(Tail(rows), today, horizon, acc)

RECURSIVE FilterLoop(_, _, _, _)
FilterLoop(rows, today, horizon, acc) ==
    IF rows = <<>> THEN acc
    ELSE IF Included(Head(rows), today, horizon)
         THEN FilterLoop(Tail(rows), today, horizon,
                         Append(acc, UpcomingRow(Head(rows), today)))
         ELSE FilterLoop(Tail(rows), today, horizon, acc)

check_upcoming_birthdays(contacts_df, horizon, today) ==
    IF contacts_df = <<>> THEN <<>>
    ELSE FilterLoop(contacts_df, today, horizon, <<>>)

----------------------------------------------------------------------------
(* load_contacts_from_file *)

NoFile == [present |-> FALSE, decodable |-> FALSE, text |-> <<>>]

\* an upload whose bytes decode as UTF-8 to the text t
TextFile(t) == [present |-> TRUE, decodable |-> TRUE, text |-> t]

\* an upload whose bytes are not valid UTF-8: decode raises
BadFile == [present |-> TRUE, decodable |-> FALSE, text |-> <<>>]

\* lines 38-47
ContactOf(line) ==
    LET parts == Split(line, Comma)
    IN  [Name      |-> Strip(parts[1]),
         Address   |-> Strip(parts[2]),
         Birthdate |-> Strip(parts[3])]

\* KeepsLine asking for more than three fields
KeepsLineStrict(line) == Strip(line) # <<>> /\ Len(Split(line, Comma)) > 3

\* lines 36-39
KeepsLine(line) == Strip(line) # <<>> /\ Len(Split(line, Comma)) >= 3

RECURSIVE LoadLoop(_, _)
LoadLoop(lines, acc) ==
    IF lines = <<>> THEN acc
    ELSE IF KeepsLine(Head(lines))
         THEN LoadLoop(Tail(lines), Append(acc, ContactOf(Head(lines))))
         ELSE LoadLoop(Tail(lines), acc)

load_contacts_from_file(f) ==
    IF ~f.decodable THEN <<>>
    ELSE LoadLoop(Split(Strip(f.text), NewLine), <<>>)

----------------------------------------------------------------------------
(* send_birthday_notification and the notification loop of main *)

Msg(kind, name) == [kind |-> kind, name |-> name]

\* lines 268-271 for one row; ok is what the SMTP session of lines 116-120
\* does (send_birthday_notification returns it, line 121 or 125)
SendStep(person, ok) ==
    [attempt |-> [person |-> person, ok |-> ok],
     lines   |-> IF ok THEN <<Msg("sent", person.Name)>>
                 ELSE <<Msg("send_error", person.Name),
                        Msg("failed", person.Name)>>]

----------------------------------------------------------------------------
(* create_birthday_card *)

NoCard == [card_type |-> "", recipient |-> <<>>, message |-> ""]

CardStyles == {"Classic", "Modern", "Fun", "Elegant"}

create_birthday_card(card_type, text, recipient_name) ==
    [card_type |-> IF card_type \in CardStyles THEN card_type ELSE "Classic",
     recipient |-> recipient_name,
     message   |-> text]

----------------------------------------------------------------------------
(* Inputs *)

\* "Jane Smith"
JaneSmith ==
    <<74, 97, 110, 101, 32, 83, 109, 105, 116, 104>>

\* "Bob"
Bob ==
    <<66, 111, 98>>

\* "Cy"
Cy ==
    <<67, 121>>

\* "1 Oak Ave"
OakAve ==
    <<49, 32, 79, 97, 107, 32, 65, 118, 101>>

\* the two example lines of the upload instructions:
\* "John Doe, 123 Main St, Anytown ST 12345, 03/15/1990"
\* "Jane Smith, 456 Oak Ave, Another City ST 67890, 07/22/1985"
DocLines ==
    <<74, 111, 104, 110, 32, 68, 111, 101, 44, 32, 49, 50, 51, 32, 77,
      97, 105, 110, 32, 83, 116, 44, 32, 65, 110, 121, 116, 111, 119,
      110, 32, 83, 84, 32, 49, 50, 51, 52, 53, 44, 32, 48, 51, 47, 49,
      53, 47, 49, 57, 57, 48, 10, 74, 97, 110, 101, 32, 83, 109, 105,
      116, 104, 44, 32, 52, 53, 54, 32, 79, 97, 107, 32, 65, 118, 101,
      44, 32, 65, 110, 111, 116, 104, 101, 114, 32, 67, 105, 116, 121,
      32, 83, 84, 32, 54, 55, 56, 57, 48, 44, 32, 48, 55, 47, 50, 50,
      47, 49, 57, 56, 53, 10>>

\* five lines ending in CR LF, the third one empty:
\* "Ann, 1 Elm, n/a"
\* "Jane Smith, 1 Oak Ave, 07/22/1985"
\* "short, line"
\* "Cy, 3 Fir, 07.21.2001, extra"
MixedLines ==
    <<65, 110, 110, 44, 32, 49, 32, 69, 108, 109, 44, 32, 110, 47, 97,
      13, 10, 74, 97, 110, 101, 32, 83, 109, 105, 116, 104, 44, 32, 49,
      32, 79, 97, 107, 32, 65, 118, 101, 44, 32, 48, 55, 47, 50, 50,
      47, 49, 57, 56, 53, 13, 10, 13, 10, 115, 104, 111, 114, 116, 44,
      32, 108, 105, 110, 101, 13, 10, 67, 121, 44, 32, 51, 32, 70, 105,
      114, 44, 32, 48, 55, 46, 50, 49, 46, 50, 48, 48, 49, 44, 32, 101,
      120, 116, 114, 97, 13, 10>>

\* "07/22/1985", "07-20-1990", "07.21.2000", "7/27/1985" with the 7 of the
\* day written U+0667 (ARABIC-INDIC DIGIT SEVEN), "07/28/1985", "07/19/1980",
\* "01/01/1999", "02/29/1992", "1985-07-22"
BirthdateTexts ==
    {<<48, 55, 47, 50, 50, 47, 49, 57, 56, 53>>,
     <<48, 55, 45, 50, 48, 45, 49, 57, 57, 48>>,
     <<48, 55, 46, 50, 49, 46, 50, 48, 48, 48>>,
     <<55, 47, 50, 1639, 47, 49, 57, 56, 53>>,
     <<48, 55, 47, 50, 56, 47, 49, 57, 56, 53>>,
     <<48, 55, 47, 49, 57, 47, 49, 57, 56, 48>>,
     <<48, 49, 47, 48, 49, 47, 49, 57, 57, 57>>,
     <<48, 50, 47, 50, 57, 47, 49, 57, 57, 50>>,
     <<49, 57, 56, 53, 45, 48, 55, 45, 50, 50>>}

NameOf(i) == IF i = 1 THEN JaneSmith ELSE IF i = 2 THEN Bob ELSE Cy

ContactRows(n) ==
    {[i \in 1..n |-> [Name |-> NameOf(i), Address |-> OakAve, Birthdate |-> b[i]]] :
        b \in [1..n -> BirthdateTexts]}

ContactLists == UNION {ContactRows(n) : n \in 1..MaxContacts}

Horizons == {0, 1, 7, 366}

Day(y, m, d) == [year |-> y, month |-> m, day |-> d, tod |-> 0]

FilterDates == {Day(2024, 7, 20), Day(2024, 12, 31), Day(2024, 3, 5),
                Day(2024, 2, 28), Day(2023, 2, 28)}

SessionDates == {Day(2024, 7, 20)}

\* the starting dates the clock is followed past midnight from
RolloverDates == {Day(2024, 12, 31), Day(2024, 2, 28), Day(2023, 2, 28)}

DocFile == TextFile(DocLines)
MixedFile == TextFile(MixedLines)

SessionFiles == {DocFile, MixedFile, BadFile}

SliderValues == {1, 7}

FormTexts == {"", "May all your birthday wishes come true!"}

FormStyles == {"Fun"}

\* sample lines of an uploaded text: 1 to 4 comma-separated fields
\* "x", and "a b" between a no-break space (U+00A0) and a carriage return
FieldTexts == {<<120>>, <<160, 97, 32, 98, 13>>}

RECURSIVE JoinWith(_, _)
JoinWith(parts, sep) ==
    IF Len(parts) = 0 THEN <<>>
    ELSE IF Len(parts) = 1 THEN parts[1]
    ELSE parts[1] \o <<sep>> \o JoinWith(Tail(parts), sep)

SampleLines ==
    {JoinWith(fs, Comma) : fs \in UNION {[1..n -> FieldTexts] : n \in 1..4}}
    \cup {<<>>, <<Space, 12>>}

ParseFiles ==
    {TextFile(JoinWith(ls, NewLine)) :
        ls \in UNION {[1..n -> SampleLines] : n \in 1..MaxLines}}
    \cup {BadFile}

----------------------------------------------------------------------------
(* The clock *)

SameDay(a, b) == a.year = b.year /\ a.month = b.month /\ a.day = b.day

NextTick(t) ==
    IF t.tod < TicksPerDay - 1 THEN [t EXCEPT !.tod = t.tod + 1]
    ELSE IF t.day < DaysInMonth(t.year, t.month) THEN Day(t.year, t.month, t.day + 1)
    ELSE IF t.month < 12 THEN Day(t.year, t.month + 1, 1)
    ELSE Day(t.year + 1, 1, 1)

CanTick(t) ==
    \/ t.tod < TicksPerDay - 1
    \/ \E d \in RolloverDates : SameDay(d, t)

Tick ==
    /\ CanTick(now)
    /\ now' = NextTick(now)
    /\ last_op' = "tick"
    /\ UNCHANGED <<uploaded_file, contacts, selected_card, card_message,
                   days_ahead, email_enabled, notification_email, message,
                   upcoming, checked_at, attempts, reports, run>>

----------------------------------------------------------------------------
(* The contact parser applied to an uploaded file *)

DefaultForm == [card_type |-> "Classic", text |-> "", recipient |-> 1]

InitParse ==
    /\ uploaded_file \in ParseFiles
    /\ contacts = <<>>
    /\ selected_card = NoCard
    /\ card_message = ""
    /\ days_ahead = 7
    /\ email_enabled = FALSE
    /\ notification_email = FALSE
    /\ message = DefaultForm
    /\ now = Day(2024, 7, 20)
    /\ upcoming = <<>>
    /\ checked_at = NoDate
    /\ attempts = <<>>
    /\ reports = <<>>
    /\ run = "idle"
    /\ last_op = "init"

LoadContacts ==
    /\ last_op = "init"
    /\ contacts' = load_contacts_from_file(uploaded_file)
    /\ reports' = IF uploaded_file.decodable THEN <<>>
                  ELSE <<Msg("error_loading", <<>>)>>
    /\ last_op' = "load"
    /\ UNCHANGED <<uploaded_file, selected_card, card_message, days_ahead,
                   email_enabled, notification_email, message, now, upcoming,
                   checked_at, attempts, run>>

NextParse == LoadContacts

SpecParse == InitParse /\ [][NextParse]_vars

----------------------------------------------------------------------------
(* The birthday window filter applied to a contact collection *)

InitFilter ==
    /\ uploaded_file = NoFile
    /\ contacts \in ContactLists
    /\ selected_card = NoCard
    /\ card_message = ""
    /\ days_ahead \in Horizons
    /\ email_enabled = FALSE
    /\ notification_email = FALSE
    /\ message = DefaultForm
    /\ now \in FilterDates
    /\ upcoming = <<>>
    /\ checked_at = NoDate
    /\ attempts = <<>>
    /\ reports = <<>>
    /\ run = "idle"
    /\ last_op = "init"

CheckBirthdays ==
    /\ upcoming' = check_upcoming_birthdays(contacts, days_ahead, now)
    /\ checked_at' = now
    /\ last_op' = "check"
    /\ UNCHANGED <<uploaded_file, contacts, selected_card, card_message,
                   days_ahead, email_enabled, notification_email, message,
                   now, attempts, reports, run>>

NextFilter == CheckBirthdays \/ Tick

SpecFilter == InitFilter /\ [][NextFilter]_vars

----------------------------------------------------------------------------
(* main: one run of the script, made after every widget event *)

\* lines 245-247: the collection the run leaves in the session
RunContacts(file) ==
    IF file.present THEN load_contacts_from_file(file) ELSE contacts

\* line 259
RunUpcoming(file, horizon) ==
    check_upcoming_birthdays(RunContacts(file), horizon, now)

\* lines 245-253
Tab1Lines(file, df) ==
    IF ~file.present THEN <<>>
    ELSE (IF file.decodable THEN <<>> ELSE <<Msg("error_loading", <<>>)>>)
         \o (IF df # <<>>
             THEN <<Msg("loaded", <<>>)>>
             ELSE <<Msg("no_valid_contacts", <<>>)>>)

\* line 266
Sending(df, up, enabled, address, pressed) ==
    df # <<>> /\ up # <<>> /\ enabled /\ address /\ pressed

\* lines 258-265 and 272-275: the lines of tab2 outside the notification loop
Tab2Lines(df, up) ==
    IF df = <<>> THEN <<Msg("upload_first", <<>>)>>
    ELSE IF up = <<>> THEN <<Msg("no_birthdays", <<>>)>>
    ELSE <<Msg("found", <<>>)>>

\* line 282: the name the recipient select box returns
Recipient(df, form) ==
    IF form.recipient \in 1..Len(df) THEN df[form.recipient].Name ELSE df[1].Name

\* lines 280-318
MakesCard(df, form) ==
    /\ df # <<>>
    /\ Recipient(df, form) # <<>>
    /\ form.text # ""

\* lines 280-318: what tab3 leaves in the session
Tab3(df, form) ==
    /\ selected_card' =
           IF MakesCard(df, form)
           THEN create_birthday_card(form.card_type, form.text,
                                     Recipient(df, form))
           ELSE selected_card
    /\ card_message' = IF MakesCard(df, form) THEN form.text ELSE card_message

\* lines 199-265: the script from its start to the test of line 266
RunToButton(op, file, df, up, horizon, enabled, address, form) ==
    /\ uploaded_file' = file
    /\ days_ahead' = horizon
    /\ email_enabled' = enabled
    /\ notification_email' = address
    /\ message' = form
    /\ contacts' = df
    /\ upcoming' = up
    /\ checked_at' = IF df = <<>> THEN NoDate ELSE now
    /\ attempts' = <<>>
    /\ reports' = Tab1Lines(file, df) \o Tab2Lines(df, up)
    /\ last_op' = op
    /\ UNCHANGED now

\* A whole run.  When the test of line 266 succeeds the run stays in the
\* notification loop: every iteration waits for an SMTP session, tab3 is
\* reached only after the last one.  Every other run has no blocking call
\* and ends in the same step.
MainWith(op, file, df, up, horizon, enabled, address, form, pressed) ==
    /\ RunToButton(op, file, df, up, horizon, enabled, address, form)
    /\ IF Sending(df, up, enabled, address, pressed)
       THEN /\ run' = "sending"
            /\ UNCHANGED <<selected_card, card_message>>
       ELSE /\ run' = "idle"
            /\ Tab3(df, form)

\* a widget event is taken up when no script run is waiting in the loop; one
\* that arrives during the loop first stops that run (StopRun)
Main(op, file, horizon, enabled, address, form, pressed) ==
    /\ run # "sending"
    /\ \E df \in {RunContacts(file)} :
        \E up \in {check_upcoming_birthdays(df, horizon, now)} :
            MainWith(op, file, df, up, horizon, enabled, address, form, pressed)

\* the session after the first run of main (line 375), made when the page
\* is opened: no file, default widgets, the "upload first" warning of tab2
Init ==
    /\ uploaded_file = NoFile
    /\ contacts = <<>>
    /\ selected_card = NoCard
    /\ card_message = ""
    /\ days_ahead = 7
    /\ email_enabled = FALSE
    /\ notification_email = FALSE
    /\ message = DefaultForm
    /\ now \in SessionDates
    /\ upcoming = <<>>
    /\ checked_at = NoDate
    /\ attempts = <<>>
    /\ reports = Tab1Lines(NoFile, <<>>) \o Tab2Lines(<<>>, <<>>)
    /\ run = "idle"
    /\ last_op = "init"

\* a file is put in the uploader, the one already there included
UploadFile ==
    \E f \in SessionFiles :
        /\ Main("upload", f, days_ahead, email_enabled, notification_email,
                message, FALSE)

RemoveFile ==
    /\ uploaded_file.present
    /\ Main("remove", NoFile, days_ahead, email_enabled, notification_email,
            message, FALSE)

SetDaysAhead ==
    \E h \in SliderValues :
        /\ h # days_ahead
        /\ Main("slider", uploaded_file, h, email_enabled, notification_email,
                message, FALSE)

\* lines 209-216: the checkbox, the address and the SMTP fields; an edit of
\* an SMTP field, or of the address from one non-empty text to another,
\* runs the script with both tracked values unchanged
ConfigureEmail ==
    \E enabled \in BOOLEAN, address \in BOOLEAN :
        /\ address => enabled
        /\ \/ <<enabled, address>> # <<email_enabled, notification_email>>
           \/ email_enabled
        /\ Main("email", uploaded_file, days_ahead, enabled, address,
                message, FALSE)

\* lines 282-303: the widgets of tab3; choosing a suggested message equal
\* to the text typed before runs the script with the same form
ComposeCard ==
    /\ contacts # <<>>
    /\ \E style \in FormStyles, text \in FormTexts, r \in 1..Len(contacts) :
        LET form == [card_type |-> style, text |-> text, recipient |-> r]
        IN  /\ Main("compose", uploaded_file, days_ahead, email_enabled,
                    notification_email, form, FALSE)

\* lines 374-375: Streamlit runs the script again with no widget changed
\* (its own Rerun command)
Rerun ==
    Main("rerun", uploaded_file, days_ahead, email_enabled,
         notification_email, message, FALSE)

\* line 334: the download button is there once a card is in the session
DownloadCard ==
    /\ selected_card # NoCard
    /\ Main("download", uploaded_file, days_ahead, email_enabled,
            notification_email, message, FALSE)

\* line 349: the mailing select box, with another contact to choose
SelectMailing ==
    /\ selected_card # NoCard
    /\ Len(contacts) >= 2
    /\ Main("mailing", uploaded_file, days_ahead, email_enabled,
            notification_email, message, FALSE)

\* the button exists only where the previous run rendered it (line 266);
\* the run it starts reaches the loop and waits in the first SMTP session
PressSend ==
    /\ contacts # <<>>
    /\ upcoming # <<>>
    /\ email_enabled /\ notification_email
    /\ Main("send", uploaded_file, days_ahead, email_enabled,
            notification_email, message, TRUE)

\* lines 267-271, one iteration: the SMTP session of lines 116-120 for the
\* next row ends (ok or not), its lines are shown, and after the last row
\* the script goes on to tab3 and ends
SendNotification ==
    /\ run = "sending"
    /\ \E ok \in BOOLEAN :
        LET step == SendStep(upcoming[Len(attempts) + 1], ok)
        IN  /\ attempts' = Append(attempts, step.attempt)
            /\ reports' = reports \o step.lines
    /\ IF Len(attempts) + 1 = Len(upcoming)
       THEN /\ run' = "sent"
            /\ Tab3(contacts, message)
       ELSE /\ run' = "sending"
            /\ UNCHANGED <<selected_card, card_message>>
    /\ last_op' = "send"
    /\ UNCHANGED <<uploaded_file, contacts, days_ahead, email_enabled,
                   notification_email, message, now, upcoming, checked_at>>

\* A widget event arrives while the run waits in an SMTP session.  The
\* session runs to its end; Streamlit then stops the script inside the next
\* st.* call (lines 124, 269, 271) before the line is shown, and the rest
\* of the loop and tab3 are not executed.  The run for the new event follows
\* as one of the widget actions.
StopRun ==
    /\ run = "sending"
    /\ \E ok \in BOOLEAN :
        attempts' = Append(attempts,
                           SendStep(upcoming[Len(attempts) + 1], ok).attempt)
    /\ run' = "stopped"
    /\ last_op' = "stop"
    /\ UNCHANGED <<uploaded_file, contacts, selected_card, card_message,
                   days_ahead, email_enabled, notification_email, message,
                   now, upcoming, checked_at, reports>>

Next ==
    \/ UploadFile
    \/ RemoveFile
    \/ SetDaysAhead
    \/ ConfigureEmail
    \/ ComposeCard
    \/ DownloadCard
    \/ SelectMailing
    \/ Rerun
    \/ PressSend
    \/ SendNotification
    \/ StopRun
    \/ Tick

Spec == Init /\ [][Next]_vars

----------------------------------------------------------------------------
(* Vocabulary of the properties: calendar dates and raw text, stated       *)
(* without the operators of the program                                    *)

Min(S) == CHOOSE x \in S : \A y \in S : x <= y
Max(S) == CHOOSE x \in S : \A y \in S : x >= y

Count(s, c) == Cardinality({i \in 1..Len(s) : s[i] = c})

\* the k-th piece of s between occurrences of sep
Piece(s, sep, k) ==
    LET idx == {i \in 1..Len(s) :
                   s[i] # sep /\ Cardinality({j \in 1..i : s[j] = sep}) = k - 1}
    IN  IF idx = {} THEN <<>> ELSE SubSeq(s, Min(idx), Max(idx))

Trim(s) ==
    LET idx == {i \in 1..Len(s) : s[i] \notin Whitespace}
    IN  IF idx = {} THEN <<>> ELSE SubSeq(s, Min(idx), Max(idx))

RawLine(text, k) == Piece(text, NewLine, k)

WellFormedLines(text) ==
    {k \in 1..(Count(text, NewLine) + 1) : Count(RawLine(text, k), Comma) >= 2}

RecordOfLine(line) ==
    [Name      |-> Trim(Piece(line, Comma, 1)),
     Address   |-> Trim(Piece(line, Comma, 2)),
     Birthdate |-> Trim(Piece(line, Comma, 3))]

ExpectedRecords(text) ==
    LET good   == WellFormedLines(text)
        nth(r) == CHOOSE k \in good : Cardinality({j \in good : j < k}) = r - 1
    IN  [r \in 1..Cardinality(good) |-> RecordOfLine(RawLine(text, nth(r)))]

MonthDayBefore(a, b) == a.month < b.month \/ (a.month = b.month /\ a.day < b.day)

DayBefore(a, b) == a.year < b.year \/ (a.year = b.year /\ MonthDayBefore(a, b))

\* the calendar day on which the month/day of b next falls, seen from today
CalendarOccurrence(b, today) ==
    [year  |-> IF MonthDayBefore(b, today) THEN today.year + 1 ELSE today.year,
     month |-> b.month, day |-> b.day, tod |-> 0]

IsCalendarDay(d) == d.month \in 1..12 /\ d.day \in 1..DaysInMonth(d.year, d.month)

CalendarDays(a, b) == Ordinal(a) - Ordinal(b)

DateText(d) == Pad2(d.month) \o <<Slash>> \o Pad2(d.day) \o <<Slash>> \o Pad4(d.year)

\* the rows of the filter output that belong to the i-th contact
RowsOf(i) ==
    {j \in 1..Len(upcoming) :
        /\ upcoming[j].Name = contacts[i].Name
        /\ upcoming[j].Address = contacts[i].Address
        /\ upcoming[j].Birthdate = contacts[i].Birthdate}

Checked == checked_at # NoDate

Jul20 == Day(2024, 7, 20)

\* "07/22/1985"
Jane1985 == <<48, 55, 47, 50, 50, 47, 49, 57, 56, 53>>

----------------------------------------------------------------------------
(* Properties *)

\* C1: a birthdate whose month/day is today's is reported with daysUntil 0,
\* at whatever time of day the filter reads the clock and for every
\* horizon >= 0.
C1_TodayIsZeroDays ==
    Checked =>
        \A i \in 1..Len(contacts) :
            LET b == ParseBirthdate(contacts[i].Birthdate)
            IN  (b # NoDate /\ b.month = checked_at.month /\ b.day = checked_at.day)
                => \E j \in RowsOf(i) : upcoming[j].DaysUntil = 0

\* C2: daysUntil of every reported record is the number of whole calendar
\* days from today's date to the next occurrence, whatever the time of day;
\* 07/22/1985 seen on 07/20/2024 with horizon 7 gives 2 and 07/22/2024.
C2_DaysUntilIsCalendarDays ==
    Checked =>
        /\ \A j \in 1..Len(upcoming) :
              LET b == ParseBirthdate(upcoming[j].Birthdate)
              IN  upcoming[j].DaysUntil =
                      CalendarDays(CalendarOccurrence(b, checked_at), checked_at)
        /\ (/\ SameDay(checked_at, Jul20) /\ days_ahead = 7
            /\ contacts[1].Birthdate = Jane1985)
           => \E j \in RowsOf(1) :
                  /\ upcoming[j].DaysUntil = 2
                  /\ upcoming[j].ThisYearBirthday = DateText(Day(2024, 7, 22))

\* C3: a record with a parseable birthdate is reported iff its next
\* occurrence is between 0 and H calendar days after today, H included and
\* H + 1 excluded.
C3_HorizonBoundary ==
    Checked =>
        \A i \in 1..Len(contacts) :
            LET b   == ParseBirthdate(contacts[i].Birthdate)
                occ == CalendarOccurrence(b, checked_at)
            IN  (b # NoDate /\ IsCalendarDay(occ))
                => (RowsOf(i) # {}
                    <=> /\ 0 <= CalendarDays(occ, checked_at)
                        /\ CalendarDays(occ, checked_at) <= days_ahead)

\* C4: the loader returns one record for each line with at least three
\* comma-separated fields, in input order, made of the trimmed first three
\* fields; blank and shorter lines give nothing, further fields are ignored.
C4_LoaderKeepsWellFormedLines ==
    (last_op = "load" /\ uploaded_file.decodable)
        => contacts = ExpectedRecords(uploaded_file.text)

C4_Witness ==
    /\ last_op = "load"
    /\ Len(contacts) = 2
    /\ contacts[1].Name = <<97, Space, 98>>
    /\ contacts[2].Name = <<120>>
    /\ Count(RawLine(uploaded_file.text, 1), Comma) = 3
    /\ Count(RawLine(uploaded_file.text, 2), Comma) = 2

\* C5: a line in the documented upload format (name, street, city/state/zip,
\* MM/DD/YYYY) is loaded with the MM/DD/YYYY value as its Birthdate, so that
\* the contact is reported when the birthday is within the horizon.
C5_DocumentedFormatLoads ==
    (last_op # "init" /\ uploaded_file.present /\ uploaded_file.decodable) =>
        \A k \in 1..(Count(uploaded_file.text, NewLine) + 1) :
            LET line == RawLine(uploaded_file.text, k)
                date == Trim(Piece(line, Comma, 4))
            IN  (Count(line, Comma) = 3 /\ ParseBirthdate(date) # NoDate)
                => \E i \in 1..Len(contacts) :
                       /\ contacts[i].Name = Trim(Piece(line, Comma, 1))
                       /\ contacts[i].Birthdate = date

\* C6 as stated: every parseable birthdate whose month/day is earlier than
\* today gets that month/day of the next year as its next occurrence.
C6_PassedRollsToNextYear ==
    Checked =>
        \A i \in 1..Len(contacts) :
            LET b   == ParseBirthdate(contacts[i].Birthdate)
                occ == NextOccurrence(contacts[i].Birthdate, checked_at)
            IN  (b # NoDate /\ MonthDayBefore(b, checked_at))
                => /\ occ # NoDate
                   /\ occ.year = checked_at.year + 1
                   /\ occ.month = b.month /\ occ.day = b.day

\* February 29 has an occurrence only in a leap current year in which the
\* clock has not passed the midnight that starts February 29
LeapDayDropped(b, today) ==
    /\ b.month = 2 /\ b.day = 29
    /\ \/ ~IsLeap(today.year)
       \/ MonthDayBefore(b, today)
       \/ (b.month = today.month /\ b.day = today.day /\ today.tod > 0)

\* C6 (amended): a February 29 birthdate with no such occurrence is dropped;
\* every other parseable birthdate gets its month/day in the current or the
\* next year, never a day before today, and in the next year whenever the
\* month/day is earlier than today; reported rows carry that date.
C6_NextOccurrence ==
    Checked =>
        \A i \in 1..Len(contacts) :
            LET b   == ParseBirthdate(contacts[i].Birthdate)
                occ == NextOccurrence(contacts[i].Birthdate, checked_at)
            IN  b # NoDate =>
                    IF LeapDayDropped(b, checked_at)
                    THEN occ = NoDate /\ RowsOf(i) = {}
                    ELSE /\ occ # NoDate
                         /\ occ.month = b.month /\ occ.day = b.day
                         /\ occ.year \in {checked_at.year, checked_at.year + 1}
                         /\ MonthDayBefore(b, checked_at)
                                => occ.year = checked_at.year + 1
                         /\ ~DayBefore(occ, checked_at)
                         /\ \A j \in RowsOf(i) :
                                upcoming[j].ThisYearBirthday = DateText(occ)

C6_Witness ==
    /\ Checked
    /\ \E i \in 1..Len(contacts) :
          LET b == ParseBirthdate(contacts[i].Birthdate)
          IN  /\ b # NoDate
              /\ MonthDayBefore(b, checked_at)
              /\ \E j \in RowsOf(i) :
                     upcoming[j].ThisYearBirthday =
                         DateText(Day(checked_at.year + 1, b.month, b.day))

\* the filter output for the contacts i..n, each evaluated on its own
RECURSIVE EachOnItsOwn(_)
EachOnItsOwn(i) ==
    IF i > Len(contacts) THEN <<>>
    ELSE check_upcoming_birthdays(<<contacts[i]>>, days_ahead, checked_at)
         \o EachOnItsOwn(i + 1)

\* C7: a record whose birthdate does not parse stays in the session's
\* collection after the upload and is left out by the filter alone, with no
\* error; every other record is still evaluated and the output keeps the
\* input order.
C7_UnparseableKeptThenSkipped ==
    /\ (last_op # "init" /\ uploaded_file.present /\ uploaded_file.decodable)
          => /\ \A k \in WellFormedLines(uploaded_file.text) :
                    \E i \in 1..Len(contacts) :
                        contacts[i] = RecordOfLine(RawLine(uploaded_file.text, k))
             /\ \A n \in 1..Len(reports) : reports[n].kind # "error_loading"
    /\ Checked
          => /\ upcoming = EachOnItsOwn(1)
             /\ \A j \in 1..Len(upcoming) :
                    ParseBirthdate(upcoming[j].Birthdate) # NoDate

C7_Witness ==
    /\ Checked
    /\ uploaded_file.present
    /\ Len(contacts) >= 2
    /\ ParseBirthdate(contacts[1].Birthdate) = NoDate
    /\ RowsOf(1) = {}
    /\ RowsOf(2) # {}

\* C8: two filter runs on the same collection and horizon, made on the same
\* calendar day at any two times of day, return the same output.
C8_SameDaySameOutput ==
    [][(last_op' = "check" /\ Checked /\ SameDay(checked_at, checked_at'))
           => upcoming' = upcoming]_vars

SendLines == SelectSeq(reports, LAMBDA m : m.kind \in {"sent", "failed"})

\* C9: once the run started by the send button has ended, one send attempt
\* has been made for each record of the upcoming list, in list order; a
\* failed send is reported for its record, is not retried and does not stop
\* the later attempts.  While the loop runs the attempts made are the first
\* records of the list, one each.
C9_OneAttemptPerRecord ==
    /\ run \in {"sent", "stopped"}
          => /\ Len(attempts) = Len(upcoming)
             /\ Len(SendLines) = Len(upcoming)
             /\ \A i \in 1..Len(upcoming) :
                   /\ attempts[i].person = upcoming[i]
                   /\ SendLines[i].name = upcoming[i].Name
                   /\ SendLines[i].kind =
                          IF attempts[i].ok THEN "sent" ELSE "failed"
    /\ run = "sending"
          => /\ Len(attempts) < Len(upcoming)
             /\ \A i \in 1..Len(attempts) : attempts[i].person = upcoming[i]
    /\ run = "idle" => attempts = <<>>

\* C10: an upload that cannot be decoded leaves the session's contact list,
\* card and card message as they were before it.
C10_FailedUploadKeepsSession ==
    [][(last_op' = "upload" /\ ~uploaded_file'.decodable)
           => /\ contacts' = contacts
              /\ selected_card' = selected_card
              /\ card_message' = card_message]_vars

====
